---- MODULE Spec2Model ----
(***************************************************************************)
(* ServiceBusStore (lib/sbstore.js): the socket.io store that distributes  *)
(* published events between nodes over a Service Bus topic.                *)
(*                                                                         *)
(* Two store instances ("A" and "B") are modelled, each with its own       *)
(* transport object (this.sb).  The transport classes (BatchInterface,     *)
(* ServiceBusInterface) are not part of lib/sbstore.js; the little of them *)
(* that the store relies on (start/stop/on/send, per-sender ordered        *)
(* hand-over of envelopes to the 'message' handler) is modelled from the   *)
(* design document and kept apart in the "Transport" section.              *)
(*                                                                         *)
(* Every store operation is one atomic action (JavaScript runs a handler   *)
(* to completion).  The variable `last` records the most recent call: its  *)
(* inputs, the registry it started from, the ordered list of externally    *)
(* visible effects it caused (events emitted, consumers invoked, transport *)
(* and listener calls) and the error it raised, if any.                    *)
(***************************************************************************)
EXTENDS Integers, Sequences, FiniteSets, TLC

\* ---------------------------------------------------------------- bounds
\* single-store specification (Spec):
\*   publish calls made in one behaviour
MaxSends == 1
\*   consumers held by the store's registry (all names together)
MaxSubs == 2
\* two-store specification (NetSpec):
\*   publish calls made in one behaviour (both stores together)
NetMaxSends == 2
\*   consumers held by one store's registry (all names together)
NetMaxSubs == 1
\* single-store specification with consumers that raise or call back
\* (DispatchSpec):
\*   consumers held by the registry when a subscribe or a receiveMessage is
\*   called from outside (consumers subscribing during a dispatch add to it)
DispatchMaxSubs == 3

\* ------------------------------------------------------------ input sets
Stores == {"A", "B"}
\* event names; "constructor" is also a property every JS object inherits
Names == {"m1", "m2", "constructor"}
Consumers == {"c1", "c2"}
\* argument lists of a published event (opaque serialisable values)
ArgLists == {<< >>, <<"v1", "v2">>}

\* -------------------------------------------------------- JS value model
Undefined == [t |-> "undefined"]
Str(s) == [t |-> "string", v |-> s]
Obj(id) == [t |-> "object", v |-> id]
Arr(seq) == [t |-> "array", v |-> seq]
\* a function object such as Object.prototype.constructor
Fun(id) == [t |-> "function", v |-> id]

\* ToBoolean: undefined and the empty string are falsy
Truthy(val) == val.t # "undefined" /\ ~(val.t = "string" /\ val.v = "")

\* a || b
Or(a, b) == IF Truthy(a) THEN a ELSE b

\* properties that `{}` inherits from Object.prototype
ObjectPrototypeNames == {"constructor"}

\* obj[name] on a plain object literal: own property, else inherited
\* property, else undefined.  `obj` is a function from its own keys.
Get(obj, name) ==
    IF name \in DOMAIN obj THEN Arr(obj[name])
    ELSE IF name \in ObjectPrototypeNames THEN Fun("Object")
    ELSE Undefined

\* obj[name] = arr
Put(obj, name, arr) == (name :> arr) @@ obj

\* ------------------------------------------------------ observable effects
\* One externally visible step of a call, in a uniform shape:
\*   k  kind      ev  event / method      x, y  string operands   z  arguments
Effect(k, ev, x, y, z) == [k |-> k, ev |-> ev, x |-> x, y |-> y, z |-> z]

\* this.emit(ev, ...): a local event of the store
Emit(ev, x, y, z) == Effect("emit", ev, x, y, z)
\* consumer.apply(null, args)
Call(consumer, args) == Effect("call", "apply", consumer, "-", args)
\* a method call on the transport object this.sb
SbCall(method, x, y, z) == Effect("sb", method, x, y, z)
\* a hook call on a listener object
ListenerCall(hook, l, arg) == Effect("listener", hook, l, arg, << >>)
\* construction of a collaborator
New(class, x) == Effect("new", class, x, "-", << >>)

\* identity of the transport object built for store s (this.sb)
TransportOf(s) == IF s = "A" THEN "sbA" ELSE "sbB"
\* a fresh random uuid: distinct per store
uuid(s) == IF s = "A" THEN "uuid-A" ELSE "uuid-B"

\* result of a call: effects in order, error raised (or "none"), and the
\* registry the call leaves behind
Result(eff, err, subs) == [eff |-> eff, err |-> err, subscribers |-> subs]

\* ------------------------------------------------------------- the store
\* ServiceBusStore.prototype.publish: arguments = (name, a1, ..., an)
publishNameInBody(subs, arguments) ==
    LET argsArray == arguments
    IN  Result(<< SbCall("send", argsArray[1], "-",
                         SubSeq(argsArray, 1, Len(argsArray))),
                  Emit("publish", argsArray[1], "-",
                       SubSeq(argsArray, 2, Len(argsArray))) >>,
               "none", subs)

publishNoSend(subs, arguments) ==
    LET argsArray == arguments
    IN  Result(<< Emit("publish", argsArray[1], "-",
                       SubSeq(argsArray, 2, Len(argsArray))) >>,
               "none", subs)

publish(subs, arguments) ==
    LET \* Array.prototype.slice.call(arguments, 0)
        argsArray == arguments
        \* [name, argsArray.slice(1)]
        args == << argsArray[1], SubSeq(argsArray, 2, Len(argsArray)) >>
    IN  Result(<< SbCall("send", args[1], "-", args[2]),
                  \* ['publish'].concat(argsArray)
                  Emit("publish", argsArray[1], "-",
                       SubSeq(argsArray, 2, Len(argsArray))) >>,
               "none", subs)

\* ServiceBusStore.prototype.subscribe
subscribe(subs, name, consumer) ==
    LET subscribers_ == Or(Get(subs, name), Arr(<< >>))
    IN  IF subscribers_.t # "array"
        \* push is not a function of the inherited value
        THEN Result(<< >>, "TypeError", subs)
        ELSE Result(<< Emit("subscribe", name, consumer, << >>) >>, "none",
                    Put(subs, name, Append(subscribers_.v, consumer)))

\* the callback handed to filter: function (item) { item !== consumer; }
\* The comparison is evaluated and dropped; the function returns nothing.
filterCallback(item, consumer) == Undefined

\* Array.prototype.filter: keeps the items whose callback result is truthy
filter(arr, consumer) ==
    SelectSeq(arr, LAMBDA item : Truthy(filterCallback(item, consumer)))

\* ServiceBusStore.prototype.unsubscribe
unsubscribe(subs, name, consumer) ==
    LET subscribers_ == Or(Get(subs, name), Arr(<< >>))
    IN  IF subscribers_.t # "array"
        \* filter is not a function of the inherited value
        THEN Result(<< >>, "TypeError", subs)
        ELSE Result(<< Emit("unsubscribe", name, consumer, << >>) >>, "none",
                    Put(subs, name, filter(subscribers_.v, consumer)))

\* ------------------------------------------------------------ consumers
\* A consumer is a function the caller hands to subscribe; what it does when
\* it is invoked is the caller's code.  The kinds supplied here: it returns
\* (any identifier not listed), it raises, or it calls back into the store
\* that is dispatching to it.
Does(consumer) ==
    CASE consumer = "cThrows" -> "throw"
      [] consumer = "cSubscribes" -> "subscribe"
      [] consumer = "cUnsubscribes" -> "unsubscribe"
      [] OTHER -> "return"
\* the call a re-entrant consumer makes: store.subscribe("m1", c1), or
\* store.unsubscribe("m1", c1)
ReentrantName == "m1"
ReentrantConsumer == "c1"

\* sub.apply(null, args) while the registry is subs.  `fresh` names the
\* registry entries that are a new array object after the call: subscribe
\* pushes onto the array it finds (a new one only if there was none),
\* unsubscribe always stores the new array that filter returns.
apply(sub, args, subs) ==
    LET call == << Call(sub, args) >>
    IN  CASE Does(sub) = "throw" ->
                 [eff |-> call, err |-> "ConsumerError", subscribers |-> subs,
                  fresh |-> {}]
          [] Does(sub) = "subscribe" ->
                 LET r == subscribe(subs, ReentrantName, ReentrantConsumer)
                 IN  [eff |-> call \o r.eff, err |-> r.err,
                      subscribers |-> r.subscribers,
                      fresh |-> IF r.err = "none" /\ ReentrantName \notin DOMAIN subs
                                THEN {ReentrantName} ELSE {}]
          [] Does(sub) = "unsubscribe" ->
                 LET r == unsubscribe(subs, ReentrantName, ReentrantConsumer)
                 IN  [eff |-> call \o r.eff, err |-> r.err,
                      subscribers |-> r.subscribers,
                      fresh |-> IF r.err = "none" THEN {ReentrantName} ELSE {}]
          [] OTHER ->
                 [eff |-> call, err |-> "none", subscribers |-> subs,
                  fresh |-> {}]

\* the element of a one-element set.  {F(x) : x \in {v}} evaluates v once,
\* however often F uses x.
Only(S) == CHOOSE x \in S : TRUE

\* Steps k..len of Array.prototype.forEach over the array object whose
\* elements are O now, taken from the registry entry of name.  len was read
\* once, before the first step; each step reads element k of the array as
\* it is at that moment (skipping an index the array does not have) and
\* invokes it.  acc carries the effects so far, the registry, and whether the
\* registry entry of name is still this array object (same): then what a
\* consumer pushes onto the entry is pushed onto the array being iterated.
\* A consumer that raises ends the iteration and the error is passed on.
RECURSIVE forEachFrom(_, _, _, _, _, _)
RECURSIVE forEachStep(_, _, _, _, _, _, _)
\* step k, the callback's outcome being r
forEachStep(k, len, O, name, args, acc, r) ==
    IF r.err # "none"
    THEN Result(acc.eff \o r.eff, r.err, r.subscribers)
    ELSE Only({forEachFrom(k + 1, len,
                           IF acc2.same THEN acc2.subscribers[name] ELSE O,
                           name, args, acc2) :
               acc2 \in {[eff |-> acc.eff \o r.eff,
                          subscribers |-> r.subscribers,
                          same |-> acc.same /\ name \notin r.fresh]}})

forEachFrom(k, len, O, name, args, acc) ==
    IF k > len THEN Result(acc.eff, "none", acc.subscribers)
    ELSE IF k > Len(O) THEN forEachFrom(k + 1, len, O, name, args, acc)
    ELSE Only({forEachStep(k, len, O, name, args, acc, r) :
               r \in {apply(O[k], args, acc.subscribers)}})

\* an iteration that looks the entry of name up in the registry at every
\* step, its length too
RECURSIVE forEachLiveFrom(_, _, _, _)
forEachLiveFrom(k, name, args, acc) ==
    LET O == IF name \in DOMAIN acc.subscribers THEN acc.subscribers[name]
             ELSE << >>
    IN  IF k > Len(O) THEN Result(acc.eff, "none", acc.subscribers)
        ELSE LET r == apply(O[k], args, acc.subscribers)
             IN  IF r.err # "none"
                 THEN Result(acc.eff \o r.eff, r.err, r.subscribers)
                 ELSE forEachLiveFrom(k + 1, name, args,
                                      [eff |-> acc.eff \o r.eff,
                                       subscribers |-> r.subscribers])

forEachOverRegistry(O, name, args, subs) ==
    forEachLiveFrom(1, name, args, [eff |-> << >>, subscribers |-> subs])

\* an iteration that goes on after a consumer has raised
forEachPastErrors(O, name, args, subs) ==
    LET RECURSIVE From(_, _)
        From(k, acc) ==
            IF k > Len(O) THEN acc
            ELSE LET r == apply(O[k], args, acc.subscribers)
                 IN  From(k + 1, Result(acc.eff \o r.eff,
                                        IF acc.err # "none" THEN acc.err ELSE r.err,
                                        r.subscribers))
    IN  From(1, Result(<< >>, "none", subs))

\* an iteration that goes over the array a second time
forEachTwice(O, name, args, subs) ==
    LET first == forEachFrom(1, Len(O), O, name, args,
                             [eff |-> << >>, subscribers |-> subs,
                              same |-> name \in DOMAIN subs])
    IN  IF first.err # "none" THEN first
        ELSE forEachFrom(1, Len(O), O, name, args,
                         [eff |-> first.eff, subscribers |-> first.subscribers,
                          same |-> FALSE])

\* subscribers.forEach(function (sub) { sub.apply(null, args); }) where
\* subscribers (O) is this.subscribers[name] || [] and the registry is subs
forEach(O, name, args, subs) ==
    forEachFrom(1, Len(O), O, name, args,
                [eff |-> << >>, subscribers |-> subs,
                 same |-> name \in DOMAIN subs])

\* ServiceBusStore.prototype.receiveMessage
receiveMessageNoFilter(nodeId_, subs, sourceNodeId, name, args) ==
    LET received == << Emit("received", sourceNodeId, name, args) >>
        subscribers_ == Or(Get(subs, name), Arr(<< >>))
    IN  IF subscribers_.t # "array"
        THEN Result(received, "TypeError", subs)
        ELSE LET r == forEach(subscribers_.v, name, args, subs)
             IN  Result(received \o r.eff, r.err, r.subscribers)

receiveMessageReversed(nodeId_, subs, sourceNodeId, name, args) ==
    LET received == << Emit("received", sourceNodeId, name, args) >>
        subscribers_ == Or(Get(subs, name), Arr(<< >>))
        v == IF subscribers_.t = "array" THEN subscribers_.v ELSE << >>
        r == forEach([i \in 1..Len(v) |-> v[Len(v) + 1 - i]], name, args, subs)
    IN  IF sourceNodeId # nodeId_
        THEN IF subscribers_.t # "array"
             THEN Result(received, "TypeError", subs)
             ELSE Result(received \o r.eff, r.err, r.subscribers)
        ELSE Result(received, "none", subs)

receiveMessageEmitLast(nodeId_, subs, sourceNodeId, name, args) ==
    LET received == << Emit("received", sourceNodeId, name, args) >>
        subscribers_ == Or(Get(subs, name), Arr(<< >>))
    IN  IF sourceNodeId # nodeId_ /\ subscribers_.t = "array"
        THEN LET r == forEach(subscribers_.v, name, args, subs)
             IN  Result(r.eff \o received, r.err, r.subscribers)
        ELSE Result(received, "none", subs)

\* a dispatch that uses the entry up
receiveMessageConsuming(nodeId_, subs, sourceNodeId, name, args) ==
    LET received == << Emit("received", sourceNodeId, name, args) >>
    IN  IF sourceNodeId # nodeId_
        THEN LET subscribers_ == Or(Get(subs, name), Arr(<< >>))
             IN  IF subscribers_.t # "array"
                 THEN Result(received, "TypeError", subs)
                 ELSE LET r == forEach(subscribers_.v, name, args, subs)
                      IN  Result(received \o r.eff, r.err,
                                 Put(r.subscribers, name, << >>))
        ELSE Result(received, "none", subs)

receiveMessage(nodeId_, subs, sourceNodeId, name, args) ==
    LET received == << Emit("received", sourceNodeId, name, args) >>
    IN  IF sourceNodeId # nodeId_
        THEN LET subscribers_ == Or(Get(subs, name), Arr(<< >>))
             IN  IF subscribers_.t # "array"
                 \* forEach is not a function of the inherited value
                 THEN Result(received, "TypeError", subs)
                 ELSE LET r == forEach(subscribers_.v, name, args, subs)
                      IN  Result(received \o r.eff, r.err, r.subscribers)
        ELSE Result(received, "none", subs)

\* Whether the identifier `Store` is bound in the module scope: the module
\* binds io, util, uuid, azure, Client, logging, BatchInterface and
\* ServiceBusInterface, and refers to the base class as io.Store elsewhere.
StoreIsBound == FALSE

\* ServiceBusStore.prototype.destroy
destroy(subs) ==
    IF ~StoreIsBound
    \* evaluating Store.prototype.destroy raises before anything is done
    THEN Result(<< >>, "ReferenceError", subs)
    ELSE Result(<< Effect("call", "Store.prototype.destroy", "-", "-", << >>),
                   SbCall("stop", "-", "-", << >>) >>,
                "none", << >>)

\* the two configuration errors of createServiceBusInterface
ErrBoth == "Error: Should specify connection string or serviceBusService object, not both"
ErrNeither == "Error: Must specify one of connectionString or serviceBusService in options"

\* the transport built before this.nodeId has a value
createServiceBusInterfaceNoNodeId(options, nodeId_) ==
    IF options.t = "undefined"
    THEN [eff |-> << >>, err |-> "TypeError"]
    ELSE IF Truthy(options.connectionString) /\ Truthy(options.serviceBusService)
    THEN [eff |-> << >>, err |-> ErrBoth]
    ELSE IF ~Truthy(options.connectionString) /\ ~Truthy(options.serviceBusService)
    THEN [eff |-> << >>, err |-> ErrNeither]
    ELSE [eff |-> (IF Truthy(options.connectionString)
                   THEN << Effect("call", "azure.createServiceBusService",
                                  options.connectionString.v, "-", << >>) >>
                   ELSE << >>)
                  \o << New("ServiceBusInterface", "undefined"),
                        New("BatchInterface", "undefined") >>,
          err |-> "none"]

\* ServiceBusStore.prototype.createServiceBusInterface
createServiceBusInterface(options, nodeId_) ==
    IF options.t = "undefined"
    \* options.connectionString on undefined
    THEN [eff |-> << >>, err |-> "TypeError"]
    ELSE IF Truthy(options.connectionString) /\ Truthy(options.serviceBusService)
    THEN [eff |-> << >>, err |-> ErrBoth]
    ELSE IF ~Truthy(options.connectionString) /\ ~Truthy(options.serviceBusService)
    THEN [eff |-> << >>, err |-> ErrNeither]
    ELSE [eff |-> (IF Truthy(options.connectionString)
                   THEN << Effect("call", "azure.createServiceBusService",
                                  options.connectionString.v, "-", << >>) >>
                   ELSE << >>)
                  \o << New("ServiceBusInterface", nodeId_),
                        New("BatchInterface", nodeId_) >>,
          err |-> "none"]

\* ServiceBusStore.prototype.hookupListeners, for store s
hookupListenersNoWrap(listeners, s) ==
    LET l1 == Or(listeners, Arr(<< >>))
        l2 == IF l1.t # "array" THEN << >> ELSE l1.v
    IN  [i \in 1..(2 * Len(l2)) |->
            IF i % 2 = 1 THEN ListenerCall("store", l2[(i + 1) \div 2], s)
                         ELSE ListenerCall("sb", l2[i \div 2], TransportOf(s))]

hookupListeners(listeners, s) ==
    LET l1 == Or(listeners, Arr(<< >>))
        \* if (!(listeners instanceof Array)) listeners = [listeners]
        l2 == IF l1.t # "array" THEN << l1.v >> ELSE l1.v
    IN  \* forEach: l.store(that); l.sb(that.sb);
        [i \in 1..(2 * Len(l2)) |->
            IF i % 2 = 1 THEN ListenerCall("store", l2[(i + 1) \div 2], s)
                         ELSE ListenerCall("sb", l2[i \div 2], TransportOf(s))]

ServiceBusStoreNoHandler(s, options) ==
    LET base == << Effect("call", "io.Store.apply", s, "-", << >>) >>
        nid == Or(IF Truthy(options) THEN options.nodeId ELSE options,
                  Str(uuid(s))).v
        built == createServiceBusInterface(options, nid)
    IN  IF built.err # "none"
        THEN [eff |-> base \o built.eff, err |-> built.err,
              nodeId |-> nid, subscribers |-> << >>]
        ELSE [eff |-> base \o built.eff
                      \o hookupListeners(IF Truthy(options) THEN options.listeners
                                         ELSE options, s)
                      \o << SbCall("start", "-", "-", << >>) >>,
              err |-> "none", nodeId |-> nid, subscribers |-> << >>]

ServiceBusStoreStartFirst(s, options) ==
    LET base == << Effect("call", "io.Store.apply", s, "-", << >>) >>
        nid == Or(IF Truthy(options) THEN options.nodeId ELSE options,
                  Str(uuid(s))).v
        built == createServiceBusInterface(options, nid)
    IN  IF built.err # "none"
        THEN [eff |-> base \o built.eff, err |-> built.err,
              nodeId |-> nid, subscribers |-> << >>]
        ELSE [eff |-> base \o built.eff
                      \o hookupListeners(IF Truthy(options) THEN options.listeners
                                         ELSE options, s)
                      \o << SbCall("start", "-", "-", << >>),
                            SbCall("on", "message", s, << >>) >>,
              err |-> "none", nodeId |-> nid, subscribers |-> << >>]

\* function ServiceBusStore(options), constructing store s.  The result
\* carries the fields the new object ends with; err # "none" means the
\* constructor raised and no object is returned.
ServiceBusStore(s, options) ==
    LET base == << Effect("call", "io.Store.apply", s, "-", << >>) >>
        \* (options && options.nodeId) || uuid()
        nid == Or(IF Truthy(options) THEN options.nodeId ELSE options,
                  Str(uuid(s))).v
        built == createServiceBusInterface(options, nid)
    IN  IF built.err # "none"
        THEN [eff |-> base \o built.eff, err |-> built.err,
              nodeId |-> nid, subscribers |-> << >>]
        ELSE [eff |-> base \o built.eff
                      \* hookupListeners(options && options.listeners)
                      \o hookupListeners(IF Truthy(options) THEN options.listeners
                                         ELSE options, s)
                      \o << SbCall("on", "message", s, << >>),
                            SbCall("start", "-", "-", << >>) >>,
              err |-> "none", nodeId |-> nid, subscribers |-> << >>]

\* ------------------------------------------------------------------ state
VARIABLES
    constructed,  \* [store -> BOOLEAN]: the constructor has returned an object
    nodeId,       \* [store -> this.nodeId]
    subscribers,  \* [store -> this.subscribers], an object: name -> array
    sb,           \* [store -> state of the transport object this.sb]
    chan,         \* [receiver -> [sender -> envelopes on their way]]
    sent,         \* [store -> number of envelopes its transport has taken]
    handled,      \* [receiver -> [sender -> numbers of the envelopes handed
                  \*   to the receiver's receiveMessage, in hand-over order]]
    last          \* the most recent call (see Blank)

vars == << constructed, nodeId, subscribers, sb, chan, sent, handled, last >>

\* the record of a call; unused fields keep these values
Blank ==
    [op |-> "none", s |-> "-", name |-> "-", consumer |-> "-", args |-> << >>,
     src |-> "-", from |-> "-", n |-> 0, options |-> Undefined,
     pre |-> << >>, eff |-> << >>, err |-> "none"]

\* -------------------------------------------------------------- transport
\* The transport object (BatchInterface over ServiceBusInterface) as the
\* store sees it: built with a nodeId it stamps on what it sends, on()
\* registers a message handler, start()/stop() open and close the polling
\* session, send() takes an envelope.
NoTransport == [nodeId |-> "", handlers |-> 0, starts |-> 0, stops |-> 0,
                polling |-> FALSE]

Count(eff, k, ev) == Cardinality({i \in DOMAIN eff : eff[i].k = k /\ eff[i].ev = ev})

\* the transport of a store after the transport calls among eff
TransportAfter(t, eff) ==
    LET built == {i \in DOMAIN eff : eff[i].k = "new" /\ eff[i].ev = "BatchInterface"}
    IN  [nodeId   |-> IF built = {} THEN t.nodeId
                      ELSE eff[CHOOSE i \in built : TRUE].x,
         handlers |-> t.handlers + Count(eff, "sb", "on"),
         starts   |-> t.starts + Count(eff, "sb", "start"),
         stops    |-> t.stops + Count(eff, "sb", "stop"),
         polling  |-> IF Count(eff, "sb", "stop") > 0 THEN FALSE
                      ELSE t.polling \/ Count(eff, "sb", "start") > 0]

\* the send calls among eff, as envelopes stamped with the transport's
\* nodeId and numbered in the order the transport took them
Envelopes(t, eff, already) ==
    LET sends == SelectSeq(eff, LAMBDA e : e.k = "sb" /\ e.ev = "send")
    IN  [i \in 1..Len(sends) |->
            [src |-> t.nodeId, name |-> sends[i].x, args |-> sends[i].z,
             n |-> already + i]]

\* the subscription of every polling node receives what a node sends, the
\* sender's own subscription too
ChanAfter(s, envs) ==
    [b \in Stores |-> IF sb[b].polling THEN [chan[b] EXCEPT ![s] = @ \o envs]
                                       ELSE chan[b]]

NextEnvelopeNewest(b, a) == chan[b][a][Len(chan[b][a])]

\* the head of the sender's channel is what the transport hands over next
NextEnvelope(b, a) == Head(chan[b][a])

\* ---------------------------------------------------------------- actions
NodeIdInputs == {Undefined, Str(""), Str("n1")}
ListenerInputs ==
    {Undefined, Obj("L1"), Arr(<< >>), Arr(<<"L1", "L2">>), Arr(<<"L2", "L1">>)}
OptionsInputs ==
    {Undefined} \cup
    [t : {"object"},
     connectionString : {Undefined, Str("Endpoint=sb://ns/")},
     serviceBusService : {Undefined, Obj("svc")},
     nodeId : NodeIdInputs,
     listeners : ListenerInputs]

TotalSubs(subs) ==
    LET names == DOMAIN subs
        RECURSIVE Sum(_)
        Sum(S) == IF S = {} THEN 0
                  ELSE LET x == CHOOSE x \in S : TRUE
                       IN  Len(subs[x]) + Sum(S \ {x})
    IN  Sum(names)

\* new ServiceBusStore(options)
Construct(s, options) ==
    /\ ~constructed[s]
    /\ LET r == ServiceBusStore(s, options)
       IN  /\ last' = [Blank EXCEPT !.op = "new", !.s = s, !.options = options,
                                    !.eff = r.eff, !.err = r.err]
           /\ IF r.err = "none"
              THEN /\ constructed' = [constructed EXCEPT ![s] = TRUE]
                   /\ nodeId' = [nodeId EXCEPT ![s] = r.nodeId]
                   /\ subscribers' = [subscribers EXCEPT ![s] = r.subscribers]
                   /\ sb' = [sb EXCEPT ![s] = TransportAfter(@, r.eff)]
              ELSE UNCHANGED << constructed, nodeId, subscribers, sb >>
    /\ UNCHANGED << chan, sent, handled >>

\* store.publish(name, ...args)
Publish(s, name, args) ==
    /\ constructed[s]
    /\ LET r == publish(subscribers[s], << name >> \o args)
           envs == Envelopes(sb[s], r.eff, sent[s])
       IN  /\ last' = [Blank EXCEPT !.op = "publish", !.s = s, !.name = name,
                                    !.args = args, !.pre = subscribers[s],
                                    !.eff = r.eff, !.err = r.err]
           /\ subscribers' = [subscribers EXCEPT ![s] = r.subscribers]
           /\ sb' = [sb EXCEPT ![s] = TransportAfter(@, r.eff)]
           /\ chan' = ChanAfter(s, envs)
           /\ sent' = [sent EXCEPT ![s] = @ + Len(envs)]
    /\ UNCHANGED << constructed, nodeId, handled >>

\* store.subscribe(name, consumer)
Subscribe(s, name, consumer) ==
    /\ constructed[s]
    /\ LET r == subscribe(subscribers[s], name, consumer)
       IN  /\ last' = [Blank EXCEPT !.op = "subscribe", !.s = s, !.name = name,
                                    !.consumer = consumer, !.pre = subscribers[s],
                                    !.eff = r.eff, !.err = r.err]
           /\ subscribers' = [subscribers EXCEPT ![s] = r.subscribers]
    /\ UNCHANGED << constructed, nodeId, sb, chan, sent, handled >>

\* store.unsubscribe(name, consumer)
Unsubscribe(s, name, consumer) ==
    /\ constructed[s]
    /\ LET r == unsubscribe(subscribers[s], name, consumer)
       IN  /\ last' = [Blank EXCEPT !.op = "unsubscribe", !.s = s, !.name = name,
                                    !.consumer = consumer, !.pre = subscribers[s],
                                    !.eff = r.eff, !.err = r.err]
           /\ subscribers' = [subscribers EXCEPT ![s] = r.subscribers]
    /\ UNCHANGED << constructed, nodeId, sb, chan, sent, handled >>

\* store.destroy()
Destroy(s) ==
    /\ constructed[s]
    /\ LET r == destroy(subscribers[s])
       IN  /\ last' = [Blank EXCEPT !.op = "destroy", !.s = s,
                                    !.pre = subscribers[s],
                                    !.eff = r.eff, !.err = r.err]
           /\ subscribers' = [subscribers EXCEPT ![s] = r.subscribers]
           /\ sb' = [sb EXCEPT ![s] = TransportAfter(@, r.eff)]
    /\ UNCHANGED << constructed, nodeId, chan, sent, handled >>

\* The polling transport of store b hands the next envelope of sender a
\* to the registered message handler, store b's receiveMessage.
Deliver(b, a) ==
    /\ constructed[b]
    /\ sb[b].polling /\ sb[b].handlers > 0
    /\ chan[b][a] # << >>
    /\ \E e \in {NextEnvelope(b, a)} :
       \E r \in {receiveMessage(nodeId[b], subscribers[b], e.src, e.name, e.args)} :
           /\ last' = [Blank EXCEPT !.op = "receiveMessage", !.s = b,
                                    !.name = e.name, !.args = e.args,
                                    !.src = e.src, !.from = a, !.n = e.n,
                                    !.pre = subscribers[b],
                                    !.eff = r.eff, !.err = r.err]
           /\ subscribers' = [subscribers EXCEPT ![b] = r.subscribers]
           /\ chan' = [chan EXCEPT ![b][a] = SelectSeq(@, LAMBDA x : x # e)]
           /\ handled' = [handled EXCEPT ![b][a] = Append(@, e.n)]
    /\ UNCHANGED << constructed, nodeId, sb, sent >>

\* store.receiveMessage(sourceNodeId, name, args), called directly
ReceiveMessage(s, sourceNodeId, name, args) ==
    /\ constructed[s]
    /\ LET r == receiveMessage(nodeId[s], subscribers[s], sourceNodeId, name, args)
       IN  /\ last' = [Blank EXCEPT !.op = "receiveMessage", !.s = s,
                                    !.name = name, !.args = args,
                                    !.src = sourceNodeId,
                                    !.pre = subscribers[s],
                                    !.eff = r.eff, !.err = r.err]
           /\ subscribers' = [subscribers EXCEPT ![s] = r.subscribers]
    /\ UNCHANGED << constructed, nodeId, sb, chan, sent, handled >>

Init ==
    /\ constructed = [s \in Stores |-> FALSE]
    /\ nodeId = [s \in Stores |-> ""]
    /\ subscribers = [s \in Stores |-> << >>]
    /\ sb = [s \in Stores |-> NoTransport]
    /\ chan = [b \in Stores |-> [a \in Stores |-> << >>]]
    /\ sent = [s \in Stores |-> 0]
    /\ handled = [b \in Stores |-> [a \in Stores |-> << >>]]
    /\ last = Blank

\* --- one store, every input: the operations of a single store
SentTotal == sent["A"] + sent["B"]
\* node ids a received envelope may carry
SourceNodeIds == {"n1", "uuid-A", "some-other-node"}

Next ==
    \/ \E options \in OptionsInputs : Construct("A", options)
    \/ \E name \in Names, args \in ArgLists :
           SentTotal < MaxSends /\ Publish("A", name, args)
    \/ \E name \in Names, consumer \in Consumers :
           TotalSubs(subscribers["A"]) < MaxSubs /\ Subscribe("A", name, consumer)
    \/ \E name \in Names, consumer \in Consumers : Unsubscribe("A", name, consumer)
    \/ Destroy("A")
    \/ Deliver("A", "A")
    \/ \E src \in SourceNodeIds, name \in Names, args \in ArgLists :
           ReceiveMessage("A", src, name, args)

Spec == Init /\ [][Next]_vars

\* --- two stores sharing a topic, each with a random nodeId
NetOptions ==
    [t : {"object"}, connectionString : {Str("Endpoint=sb://ns/")},
     serviceBusService : {Undefined}, nodeId : {Undefined},
     listeners : {Undefined}]
NetNames == {"m1"}
NetArgLists == {<<"v1", "v2">>}
NetConsumers == {"c1"}

NetNext ==
    \/ \E s \in Stores, options \in NetOptions : Construct(s, options)
    \/ \E s \in Stores, name \in NetNames, args \in NetArgLists :
           SentTotal < NetMaxSends /\ Publish(s, name, args)
    \/ \E s \in Stores, name \in NetNames, consumer \in NetConsumers :
           TotalSubs(subscribers[s]) < NetMaxSubs /\ Subscribe(s, name, consumer)
    \/ \E s \in Stores, name \in NetNames, consumer \in NetConsumers :
           Unsubscribe(s, name, consumer)
    \/ \E s \in Stores : Destroy(s)
    \/ \E b \in Stores, a \in Stores : Deliver(b, a)

\* the transport keeps polling: an envelope on its way is handed over
NetSpec ==
    Init /\ [][NetNext]_vars /\ \A b \in Stores, a \in Stores : WF_vars(Deliver(b, a))

\* --- one store whose consumers may raise or call back into the store
DispatchNames == {"m1", "m2"}
DispatchConsumers == {"c1", "cThrows", "cSubscribes", "cUnsubscribes"}
DispatchSourceNodeIds == {"uuid-A", "some-other-node"}

DispatchNext ==
    \/ \E options \in NetOptions : Construct("A", options)
    \/ \E name \in DispatchNames, consumer \in DispatchConsumers :
           TotalSubs(subscribers["A"]) < DispatchMaxSubs
               /\ Subscribe("A", name, consumer)
    \/ \E name \in DispatchNames, consumer \in DispatchConsumers :
           Unsubscribe("A", name, consumer)
    \/ \E src \in DispatchSourceNodeIds, name \in DispatchNames,
          args \in NetArgLists :
           TotalSubs(subscribers["A"]) <= DispatchMaxSubs
               /\ ReceiveMessage("A", src, name, args)

DispatchSpec == Init /\ [][DispatchNext]_vars

\* ------------------------------------------------------------- properties
\* the consumers registered for name, in registration order
Entry(subs, name) == IF name \in DOMAIN subs THEN subs[name] ELSE << >>

\* the consumer invocations among eff, in order
Calls(eff) == SelectSeq(eff, LAMBDA e : e.k = "call")
\* the local events named ev among eff, in order
Events(eff, ev) == SelectSeq(eff, LAMBDA e : e.k = "emit" /\ e.ev = ev)
\* the calls of a transport method among eff, in order
SbCalls(eff, method) == SelectSeq(eff, LAMBDA e : e.k = "sb" /\ e.ev = method)
\* position of the first effect of kind k, method ev (0 if there is none)
FirstAt(eff, k, ev) ==
    IF \E i \in DOMAIN eff : eff[i].k = k /\ eff[i].ev = ev
    THEN CHOOSE i \in DOMAIN eff :
             /\ eff[i].k = k /\ eff[i].ev = ev
             /\ \A j \in 1..(i - 1) : ~(eff[j].k = k /\ eff[j].ev = ev)
    ELSE 0
\* one invocation, with args, of each consumer of entry, in entry order
EachOnce(entry, args) ==
    [i \in 1..Len(entry) |->
        [k |-> "call", ev |-> "apply", x |-> entry[i], y |-> "-", z |-> args]]

\* C1: a receiveMessage whose sourceNodeId is the store's own nodeId invokes
\* no consumer, whatever the name and the registry, and emits exactly one
\* 'received' event carrying (sourceNodeId, name, args).
C1_SelfEchoSuppressed ==
    (last.op = "receiveMessage" /\ last.src = nodeId[last.s]) =>
        /\ Calls(last.eff) = << >>
        /\ Events(last.eff, "received") =
               << [k |-> "emit", ev |-> "received", x |-> last.src,
                   y |-> last.name, z |-> last.args] >>

\* C1 happens: a self-originated message arrives for a name that has a
\* registered consumer
C1_Witness ==
    /\ last.op = "receiveMessage" /\ last.src = nodeId[last.s]
    /\ Entry(last.pre, last.name) # << >>
    /\ last.args # << >>

\* C2: a receiveMessage from another node invokes exactly the consumers of
\* the registry entry for name as it was at the call, in registration
\* order, each once and with args; consumers of other names are not invoked.
C2_DispatchInRegistrationOrder ==
    (last.op = "receiveMessage" /\ last.src # nodeId[last.s]) =>
        Calls(last.eff) = EachOnce(Entry(last.pre, last.name), last.args)

\* C2 happens: two different consumers are registered for the name received
C2_Witness ==
    /\ last.op = "receiveMessage" /\ last.src # nodeId[last.s]
    /\ Len(Entry(last.pre, last.name)) = 2
    /\ Entry(last.pre, last.name)[1] # Entry(last.pre, last.name)[2]
    /\ last.args # << >>

\* entry without the occurrences of consumer, the others in their order
Without(entry, consumer) == SelectSeq(entry, LAMBDA item : item # consumer)
\* whether consumer occurs in entry
Occurs(entry, consumer) == \E i \in DOMAIN entry : entry[i] = consumer

\* C5: unsubscribe(name, consumer) removes consumer from the entry for name
\* and nothing else: the other consumers of name stay, in their order, and
\* the entries of the other names are as they were.
C5_UnsubscribeRemovesOnlyConsumer ==
    (last.op = "unsubscribe" /\ last.err = "none") =>
        /\ Entry(subscribers[last.s], last.name) =
               Without(Entry(last.pre, last.name), last.consumer)
        /\ \A other \in Names \ {last.name} :
               Entry(subscribers[last.s], other) = Entry(last.pre, other)

\* C6: unsubscribe(name, consumer) for a consumer that is not registered for
\* name raises no error and leaves the consumers of every name as they were
\* (stated for the names that the registry object does not inherit).
C6_UnsubscribeAbsentIsNoOp ==
    (last.op = "unsubscribe"
        /\ last.name \notin ObjectPrototypeNames
        /\ ~Occurs(Entry(last.pre, last.name), last.consumer)) =>
        /\ last.err = "none"
        /\ \A name \in Names :
               Entry(subscribers[last.s], name) = Entry(last.pre, name)

\* C7: one destroy() on an active store completes without error, calls the
\* transport's stop and leaves the registry empty.
C7_DestroyStopsAndClears ==
    last.op = "destroy" =>
        /\ last.err = "none"
        /\ Len(SbCalls(last.eff, "stop")) = 1
        /\ ~sb[last.s].polling
        /\ \A name \in Names : Entry(subscribers[last.s], name) = << >>

\* whether options supply the field (a value that is not falsy)
Supplied(options, field) ==
    options.t = "object" /\ Truthy(options[field])
\* effects that touch the transport or a listener
TransportActivity(eff) ==
    SelectSeq(eff, LAMBDA e : e.k \in {"new", "sb", "listener"}
                              \/ e.ev = "azure.createServiceBusService")

\* C8: constructing with both or with neither of connectionString and
\* serviceBusService, also with no options at all, fails with the
\* configuration error, and nothing has touched a transport or a listener.
C8_ConfigurationErrorFirst ==
    (last.op = "new"
        /\ (Supplied(last.options, "connectionString")
                <=> Supplied(last.options, "serviceBusService"))) =>
        /\ last.err \in {ErrBoth, ErrNeither}
        /\ TransportActivity(last.eff) = << >>
        /\ ~constructed[last.s]
        /\ sb[last.s] = NoTransport

\* the listeners that options supply, in order
SuppliedListeners(options) ==
    IF options.t # "object" \/ options.listeners.t = "undefined" THEN << >>
    ELSE IF options.listeners.t = "array" THEN options.listeners.v
    ELSE << options.listeners.v >>
\* the calls of a listener hook among eff, in order
Hooks(eff, hook) == SelectSeq(eff, LAMBDA e : e.k = "listener" /\ e.ev = hook)

\* C9: after a successful construction every supplied listener has had
\* store() called once with the store and sb() called once with the
\* transport, in listener order, and every hook call comes after the
\* transport was built and before its polling session was started.
C9_ListenersHookedBeforeStart ==
    (last.op = "new" /\ last.err = "none") =>
        LET ls == SuppliedListeners(last.options)
            eff == last.eff
        IN  /\ Hooks(eff, "store") =
                   [i \in 1..Len(ls) |->
                       [k |-> "listener", ev |-> "store", x |-> ls[i],
                        y |-> last.s, z |-> << >>]]
            /\ Hooks(eff, "sb") =
                   [i \in 1..Len(ls) |->
                       [k |-> "listener", ev |-> "sb", x |-> ls[i],
                        y |-> TransportOf(last.s), z |-> << >>]]
            /\ Len(SbCalls(eff, "start")) = 1
            /\ FirstAt(eff, "new", "BatchInterface") > 0
            /\ \A i \in DOMAIN eff :
                   eff[i].k = "listener" =>
                       /\ FirstAt(eff, "new", "BatchInterface") < i
                       /\ i < FirstAt(eff, "sb", "start")

\* C9 happens: a store is constructed with two listeners
C9_Witness ==
    /\ last.op = "new" /\ last.err = "none"
    /\ Len(SuppliedListeners(last.options)) = 2

\* C10: every publish(name, a1..an) makes one transport send carrying name
\* and [a1..an] in order, and emits one local 'publish' event carrying
\* (name, a1..an); the event is emitted inside the call, while the envelope
\* has yet to be handed to any node.
C10_PublishSendsAndEmitsOnce ==
    last.op = "publish" =>
        /\ last.err = "none"
        /\ SbCalls(last.eff, "send") =
               << [k |-> "sb", ev |-> "send", x |-> last.name, y |-> "-",
                   z |-> last.args] >>
        /\ Events(last.eff, "publish") =
               << [k |-> "emit", ev |-> "publish", x |-> last.name,
                   y |-> "-", z |-> last.args] >>
        /\ \A b \in Stores :
               sb[b].polling =>
                   /\ chan[b][last.s] # << >>
                   /\ LET e == chan[b][last.s][Len(chan[b][last.s])]
                      IN  /\ e.name = last.name /\ e.args = last.args
                          /\ e.src = nodeId[last.s]

\* C10 happens: an event with two arguments is published and its envelope
\* is still on its way
C10_Witness ==
    /\ last.op = "publish" /\ Len(last.args) = 2
    /\ chan[last.s][last.s] # << >>

\* envelope number n of sender a, carrying (name, args), is on its way to b
OnItsWay(b, a, n, name, args) ==
    \E i \in DOMAIN chan[b][a] :
        /\ chan[b][a][i].n = n
        /\ chan[b][a][i].name = name /\ chan[b][a][i].args = args

\* store b's receiveMessage has just been given that envelope and has
\* invoked, with args, every consumer b holds for name
HandedOver(b, a, n, name, args) ==
    /\ last.op = "receiveMessage" /\ last.s = b
    /\ last.from = a /\ last.n = n
    /\ last.name = name /\ last.args = args
    /\ Calls(last.eff) = EachOnce(Entry(subscribers[b], name), args)

\* a store given an envelope that it published itself invokes no consumer
NoSelfDispatch ==
    (last.op = "receiveMessage" /\ last.from = last.s) => Calls(last.eff) = << >>

\* C3: with stores of distinct nodeIds on a transport that hands every
\* envelope to every node, what node a publishes as (name, args) is
\* eventually given to every other node b, which invokes with exactly args
\* each consumer it holds for name; the publishing node invokes none of its
\* own consumers for it.
C3_DeliveredToOtherNodes ==
    /\ []NoSelfDispatch
    /\ \A a \in Stores : \A b \in Stores \ {a} : \A n \in 1..NetMaxSends :
       \A name \in NetNames : \A args \in NetArgLists :
           (OnItsWay(b, a, n, name, args) /\ nodeId[a] # nodeId[b])
               ~> HandedOver(b, a, n, name, args)

\* C3 happens: node B invokes a consumer for an event that node A published
\* while A holds a consumer for the same name
C3_Witness ==
    /\ HandedOver("B", "A", last.n, last.name, last.args)
    /\ Calls(last.eff) # << >>
    /\ Entry(subscribers["A"], last.name) # << >>
    /\ nodeId["A"] # nodeId["B"]

\* the numbers of sender a's envelopes at receiver b: those already handed
\* to b's receiveMessage, in hand-over order, then those still on their way
NumbersAt(b, a) ==
    handled[b][a] \o [i \in 1..Len(chan[b][a]) |-> chan[b][a][i].n]

\* C4: the k-th publish of a store is the k-th envelope its transport takes;
\* on a transport that keeps each sender's order every node is given one
\* sender's envelopes in the order they were published, and each
\* receiveMessage makes all of its consumer invocations before the next
\* envelope is handed over.
C4_OrderedDispatch ==
    /\ \A b \in Stores, a \in Stores :
           \A i \in DOMAIN NumbersAt(b, a), j \in DOMAIN NumbersAt(b, a) :
               i < j => NumbersAt(b, a)[i] < NumbersAt(b, a)[j]
    /\ last.op = "publish" =>
           \A b \in Stores :
               sb[b].polling =>
                   /\ chan[b][last.s] # << >>
                   /\ chan[b][last.s][Len(chan[b][last.s])].n = sent[last.s]
    /\ (last.op = "receiveMessage" /\ last.from \in Stores) =>
           /\ handled[last.s][last.from] # << >>
           /\ handled[last.s][last.from][Len(handled[last.s][last.from])] = last.n
           /\ last.src # nodeId[last.s] =>
                  Len(Calls(last.eff)) = Len(Entry(last.pre, last.name))

\* C4 happens: node B has invoked a consumer for the second of two events
\* that node A published, after having been given the first
C4_Witness ==
    /\ last.op = "receiveMessage" /\ last.s = "B" /\ last.from = "A"
    /\ handled["B"]["A"] = << 1, 2 >>
    /\ Calls(last.eff) # << >>

\* C11: every receiveMessage(sourceNodeId, name, args) emits exactly one
\* 'received' event, carrying (sourceNodeId, name, args), whoever sent the
\* message and whatever the registry holds, and emits it before it invokes
\* the first consumer.
C11_ReceivedOnceBeforeDispatch ==
    last.op = "receiveMessage" =>
        /\ Events(last.eff, "received") =
               << [k |-> "emit", ev |-> "received", x |-> last.src,
                   y |-> last.name, z |-> last.args] >>
        /\ \A i \in DOMAIN last.eff :
               last.eff[i].k = "call" =>
                   FirstAt(last.eff, "emit", "received") < i

\* C11 happens: a message from another node is dispatched to two consumers
C11_Witness ==
    /\ last.op = "receiveMessage"
    /\ Len(Calls(last.eff)) = 2
    /\ Len(Events(last.eff, "received")) = 1

\* C12: subscribe(name, consumer) appends consumer at the end of the entry
\* for name, creating the entry if there is none, and leaves the entries of
\* the other names as they were; a consumer already present is appended
\* again, so the entry holds it once per subscribe call.
C12_SubscribeAppends ==
    last.op = "subscribe" =>
        /\ Entry(subscribers[last.s], last.name) =
               Append(Entry(last.pre, last.name), last.consumer)
        /\ \A other \in Names \ {last.name} :
               Entry(subscribers[last.s], other) = Entry(last.pre, other)

\* C13: a successful construction registers the store's receiveMessage as
\* the transport's 'message' handler, then starts the transport's polling
\* session, once, and the session is running when the constructor returns;
\* publish, subscribe, unsubscribe and receiveMessage never call the
\* transport's start, so no store's transport is started more than once.
C13_HandlerThenSingleStart ==
    /\ (last.op = "new" /\ last.err = "none") =>
           /\ SbCalls(last.eff, "on") =
                  << [k |-> "sb", ev |-> "on", x |-> "message", y |-> last.s,
                      z |-> << >>] >>
           /\ Len(SbCalls(last.eff, "start")) = 1
           /\ FirstAt(last.eff, "sb", "on") < FirstAt(last.eff, "sb", "start")
           /\ constructed[last.s] /\ sb[last.s].polling
    /\ last.op \in {"publish", "subscribe", "unsubscribe", "receiveMessage"} =>
           SbCalls(last.eff, "start") = << >>
    /\ \A s \in Stores : sb[s].starts <= 1 /\ sb[s].handlers <= 1

\* C13 happens: the polling session started by the constructor hands the
\* store an envelope, after the store has published
C13_Witness ==
    /\ last.op = "receiveMessage" /\ last.from = last.s
    /\ sb[last.s].starts = 1 /\ sb[last.s].handlers = 1
    /\ sent[last.s] > 0

\* C14: each subscribe(name, consumer) emits exactly one 'subscribe' event,
\* carrying (name, consumer), and each unsubscribe(name, consumer) exactly
\* one 'unsubscribe' event, carrying (name, consumer), whether or not the
\* consumer was registered; each event is emitted inside its call, so the
\* events of n calls come in call order.
C14_OneEventPerCall ==
    /\ last.op = "subscribe" =>
           Events(last.eff, "subscribe") =
               << [k |-> "emit", ev |-> "subscribe", x |-> last.name,
                   y |-> last.consumer, z |-> << >>] >>
    /\ last.op = "unsubscribe" =>
           Events(last.eff, "unsubscribe") =
               << [k |-> "emit", ev |-> "unsubscribe", x |-> last.name,
                   y |-> last.consumer, z |-> << >>] >>

\* how many times consumer is invoked among eff
Invocations(eff, consumer) ==
    Cardinality({i \in DOMAIN eff : eff[i].k = "call" /\ eff[i].x = consumer})
\* how many times consumer occurs in entry
Registrations(entry, consumer) ==
    Cardinality({i \in DOMAIN entry : entry[i] = consumer})

\* C15 as stated: one receiveMessage call invokes every consumer at most
\* once, whatever subscribe and unsubscribe calls came before.
C15_AtMostOncePerConsumer ==
    last.op = "receiveMessage" =>
        \A consumer \in DispatchConsumers :
            Invocations(last.eff, consumer) <= 1

\* C15 as amended: one receiveMessage call invokes a consumer at most as
\* many times as the consumer occurs in the entry for name when the call
\* begins, that is, at most once per registration; a consumer of another
\* name's entry is not invoked.
C15_AtMostOncePerRegistration ==
    last.op = "receiveMessage" =>
        \A consumer \in DispatchConsumers :
            Invocations(last.eff, consumer) <=
                Registrations(Entry(last.pre, last.name), consumer)

\* C15 happens: a message is dispatched to an entry that holds the same
\* consumer twice, and the consumer is invoked twice
C15_Witness ==
    /\ last.op = "receiveMessage"
    /\ \E consumer \in DispatchConsumers :
           /\ Registrations(Entry(last.pre, last.name), consumer) = 2
           /\ Invocations(last.eff, consumer) = 2

\* the store's nodeId is the one the caller supplied, or else a random one;
\* both transport layers were constructed with it; the transport of every
\* constructed store holds it and every envelope on its way carries the
\* nodeId of the store that published it
NodeIdShared ==
    /\ (last.op = "new" /\ last.err = "none") =>
           /\ nodeId[last.s] = IF Supplied(last.options, "nodeId")
                               THEN last.options.nodeId.v ELSE uuid(last.s)
           /\ FirstAt(last.eff, "new", "BatchInterface") > 0
           /\ \A i \in DOMAIN last.eff :
                  last.eff[i].k = "new" => last.eff[i].x = nodeId[last.s]
    /\ \A s \in Stores : constructed[s] => sb[s].nodeId = nodeId[s]
    /\ \A b \in Stores, a \in Stores :
           \A i \in DOMAIN chan[b][a] : chan[b][a][i].src = nodeId[a]

\* C16: the nodeId (the caller's, or a random one) is assigned before the
\* transport is built and the transport is constructed with it, so what the
\* transport stamps on outbound envelopes is what the store filters on; once
\* a store is constructed no operation changes its nodeId.
C16_NodeIdFixedAndShared ==
    /\ []NodeIdShared
    /\ [][\A s \in Stores : constructed[s] => nodeId'[s] = nodeId[s]]_vars

\* C16 happens: a store constructed with the nodeId 'n1' is handed the
\* envelope of its own publish, stamped 'n1'
C16_Witness ==
    /\ last.op = "receiveMessage" /\ last.from = last.s
    /\ nodeId[last.s] = "n1" /\ last.src = "n1"
    /\ sb[last.s].nodeId = "n1"

\* C17: publish and receiveMessage (from this node or from another) leave
\* the registry as it was, entry by entry; a step that changes a store's
\* registry is a subscribe, an unsubscribe or a destroy of that store.
C17_RegistryFrame ==
    /\ [](last.op \in {"publish", "receiveMessage"} =>
              /\ subscribers[last.s] = last.pre
              /\ \A name \in Names :
                     Entry(subscribers[last.s], name) = Entry(last.pre, name))
    /\ [][\A s \in Stores :
              subscribers'[s] # subscribers[s] =>
                  last'.s = s /\ last'.op \in {"subscribe", "unsubscribe", "destroy"}]_vars

\* C17 happens: a message from another node has been dispatched to a
\* consumer while the registry holds two consumers, and the registry still
\* holds them
C17_Witness ==
    /\ last.op = "receiveMessage" /\ last.src # nodeId[last.s]
    /\ Calls(last.eff) # << >>
    /\ TotalSubs(last.pre) = 2 /\ TotalSubs(subscribers[last.s]) = 2

\* C18: a new store's registry has no consumer for any name, a name that
\* objects inherit as a property included; for a name that has never been
\* subscribed or unsubscribed, a receiveMessage from another node invokes no
\* consumer and raises no error, and a subscribe(name, c) succeeds and
\* leaves the entry [c].
C18_EmptyForEveryName ==
    /\ (last.op = "new" /\ last.err = "none") =>
           \A name \in Names : Entry(subscribers[last.s], name) = << >>
    /\ (last.op = "receiveMessage" /\ last.src # nodeId[last.s]
            /\ last.name \notin DOMAIN last.pre) =>
           last.err = "none" /\ Calls(last.eff) = << >>
    /\ (last.op = "subscribe" /\ last.name \notin DOMAIN last.pre) =>
           /\ last.err = "none"
           /\ Entry(subscribers[last.s], last.name) = << last.consumer >>

\* the consumers of entry that a dispatch reaches: all of them, or those up
\* to and including the first one that raises
Dispatched(entry) ==
    IF \E i \in DOMAIN entry : Does(entry[i]) = "throw"
    THEN SubSeq(entry, 1, CHOOSE i \in DOMAIN entry :
                              /\ Does(entry[i]) = "throw"
                              /\ \A j \in 1..(i - 1) : Does(entry[j]) # "throw")
    ELSE entry

\* the registry after the consumers cs, invoked in order, have made their
\* subscribe and unsubscribe calls on the registry subs
RECURSIVE Reentered(_, _)
Reentered(cs, subs) ==
    IF cs = << >> THEN subs
    ELSE Reentered(Tail(cs),
             CASE Does(Head(cs)) = "subscribe" ->
                      subscribe(subs, ReentrantName, ReentrantConsumer).subscribers
               [] Does(Head(cs)) = "unsubscribe" ->
                      unsubscribe(subs, ReentrantName, ReentrantConsumer).subscribers
               [] OTHER -> subs)

\* C19: the consumers that a receiveMessage from another node invokes are
\* those of the entry for name as it was when the call began, in that
\* order, also when one of them calls subscribe or unsubscribe for the same
\* name meanwhile: a consumer subscribed during the dispatch is not invoked
\* for this message and one unsubscribed during it still is.  The registry
\* the call leaves, from which the next receiveMessage dispatches, is the
\* one those subscribe and unsubscribe calls produce.
C19_DispatchOverSnapshot ==
    (last.op = "receiveMessage" /\ last.src # nodeId[last.s]) =>
        LET reached == Dispatched(Entry(last.pre, last.name))
        IN  /\ Calls(last.eff) = EachOnce(reached, last.args)
            /\ subscribers[last.s] = Reentered(reached, last.pre)

\* C19 happens: of the three consumers of 'm1' the first unsubscribes the
\* second during the dispatch and the third subscribes a consumer; all
\* three are invoked, and the entry then holds the new subscription only
C19_Witness ==
    /\ last.op = "receiveMessage" /\ last.src # nodeId[last.s]
    /\ last.name = ReentrantName
    /\ Entry(last.pre, last.name) = << "cUnsubscribes", "c1", "cSubscribes" >>
    /\ Len(Calls(last.eff)) = 3
    /\ Entry(subscribers[last.s], last.name) = << "c1" >>

\* whether a consumer of entry raises when invoked
Raises(entry) == \E i \in DOMAIN entry : Does(entry[i]) = "throw"
\* whether a consumer of entry calls back into the store when invoked
Reenters(entry) ==
    \E i \in DOMAIN entry : Does(entry[i]) \in {"subscribe", "unsubscribe"}

\* a receiveMessage from another node for a name with a consumer that
\* raises: the error reaches the caller; 'received' was emitted first, once;
\* the consumers up to the raising one were invoked, in order, and none
\* after it; the registry is as the call found it (but for what consumers
\* invoked before the raising one subscribed or unsubscribed themselves)
RaiseEndsDispatch ==
    (last.op = "receiveMessage" /\ last.src # nodeId[last.s]) =>
        LET entry == Entry(last.pre, last.name)
        IN  /\ last.err = "ConsumerError" <=> Raises(entry)
            /\ Raises(entry) =>
                   /\ FirstAt(last.eff, "emit", "received") = 1
                   /\ Len(Events(last.eff, "received")) = 1
                   /\ Calls(last.eff) = EachOnce(Dispatched(entry), last.args)
                   /\ Does(Calls(last.eff)[Len(Calls(last.eff))].x) = "throw"
                   /\ subscribers[last.s] = Reentered(Dispatched(entry), last.pre)
                   /\ ~Reenters(Dispatched(entry)) => subscribers[last.s] = last.pre

\* the receiveMessage that follows one that a consumer ended by raising
\* starts from the registry that call left and from its first consumer
NextDispatchAfterRaise ==
    (/\ last.op = "receiveMessage" /\ last.err = "ConsumerError"
     /\ last'.op = "receiveMessage" /\ last'.src # nodeId'[last'.s]) =>
        /\ last'.pre = subscribers[last.s]
        /\ Calls(last'.eff) =
               EachOnce(Dispatched(Entry(subscribers[last.s], last'.name)),
                        last'.args)

\* C20: when a consumer raises during the dispatch of a message, the
\* consumers after it in the entry are not invoked for that message and the
\* error comes out of receiveMessage to its caller; the 'received' event
\* has been emitted by then and the registry is unchanged, so the next
\* receiveMessage dispatches from the first consumer again.
C20_RaiseEndsDispatch ==
    []RaiseEndsDispatch /\ [][NextDispatchAfterRaise]_vars

\* C20 happens: the second of three consumers raises; the first two have
\* been invoked, the third has not, and the registry holds all three
C20_Witness ==
    /\ last.op = "receiveMessage" /\ last.err = "ConsumerError"
    /\ Entry(last.pre, last.name) = << "c1", "cThrows", "c1" >>
    /\ Len(Calls(last.eff)) = 2
    /\ Entry(subscribers[last.s], last.name) = << "c1", "cThrows", "c1" >>

====
